---- MODULE Spec2Model ----
(***************************************************************************)
(* Model of the rag-pipeline repository: the chunking / offset resolution  *)
(* of src/utils/chunk.ts, the transactional persistence and the vector     *)
(* search of src/utils/database.ts, the ingestion run of src/ingest.ts     *)
(* with embedChunks of src/utils/embed.ts, the retrieve, generate and eval *)
(* scripts, and parseArgs, which reads their command line.                 *)
(*                                                                         *)
(* Strings are sequences of one-character strings; offsets are 0-based and *)
(* half-open, as in JavaScript.                                            *)
(***************************************************************************)
EXTENDS Integers, Sequences, FiniteSets, TLC

VARIABLES
    content,        \* document.content of the document being chunked
    config,         \* ChunkConfig: [chunkSize, chunkOverlap]
    rawSplits,      \* what splitter.splitText(content) resolved to
    keptSplits,     \* chunkDocument: splits after its filter, the fragments resolved
    chunkOffsets,   \* chunkDocument: offsets, what findChunkOffsets returned
    chunks,         \* the Chunk[] chunkDocument returns
    chunkPc,        \* position inside chunkDocument: "start", "split", "done"
    splitterCalls,  \* number of splitter.splitText calls made
    resolverCalls,  \* number of findChunkOffsets calls made
    docs,           \* argument of insertDocuments: per document, its number of chunks
    dbPc,           \* position inside insertDocuments (the await it is suspended at)
    docIdx,         \* loop position in docs (1-based), insertDocuments
    chunkIdx,       \* loop position in doc.chunks (1-based), insertDocumentChunks
    document,       \* committed rows of table document
    document_chunk, \* committed rows of table document_chunk
    txDocument,     \* document rows written by the client's open transaction
    txChunk,        \* document_chunk rows written by the client's open transaction
    txState,        \* the client's transaction: "none", "open", "aborted"
    nextId,         \* next value of document.id (SERIAL)
    ids,            \* insertDocuments: ids
    error,          \* insertDocuments: the error caught, with the step that threw it
    rollbacks,      \* number of queries issued by the catch block
    result,         \* how insertDocuments settled: "pending", "ids" (returned),
                    \* "error" (rethrew error), "rollbackError" (ROLLBACK rejected)
    clientHeld,     \* whether the pool client is checked out
    scanPath,       \* entry names from the docs directory down to a markdown file
    loaded,         \* the Document loadMarkdownFile returned for that file
    allChunks,      \* chunkDocuments: allChunks
    docsChunked,    \* chunkDocuments: documents the loop has finished
    ingestDocs,     \* ingest: documents, each given by the number of chunks it yields
    ingestPc,       \* position inside ingest (the await it is suspended at)
    ingestChunks,   \* ingest: chunks, what chunkDocuments(documents) resolved to
    requests,       \* generateEmbedding calls made, in call order (chunk positions)
    inFlight,       \* generateEmbedding calls not yet settled (chunk positions)
    embeddedChunks, \* embedChunks: embeddedChunks
    docsToInsert,   \* ingest: docsToInsert
    stored,         \* document_chunk joined with document, as the query sees it: per
                    \* chunk id, its document's category and the cosine distance
                    \* of its embedding from the query's embedding
    topK,           \* RetrieveConfig.topK
    queryText,      \* retrieve: query
    filterCategory, \* retrieve: category, Null when the argument is omitted
    retrPc,         \* position inside retrieve (the await it is suspended at)
    scanned,        \* chunk ids the executed plan compared with the query vector
    results,        \* what searchByVector resolved to
    argv,           \* process.argv of the generate script
    genPc,          \* position inside main and generate of generate.ts
    warnings,       \* console.warn calls made by generate
    modelCalls,     \* generateResponse calls made: the query and context of each
    generated,      \* the GenerateResult generate resolved to
    chunkLog,       \* records chunk.ts has written to the console: it holds no
                    \* console call and no logger, so no step of it adds one
    dbOp,           \* the database operation called
    clientGiven,    \* whether the caller passed a client of its own
    opPc,           \* position inside that operation
    pendingQueries, \* queries the operation's body has still to issue
    acquired,       \* clients the operation has checked out of the pool
    released,       \* client.release() calls the operation has made
    evalPc,         \* position inside runEval
    evaluations,    \* runEval: evaluations
    evalWarnings,   \* console.warn calls made by runEval
    evalResult,     \* the EvalResult runEval resolved to
    parsedArgs      \* what parseArgs(process.argv) returned to main of retrieve

chunkVars == <<content, config, rawSplits, keptSplits, chunkOffsets, chunks, chunkPc,
               splitterCalls, resolverCalls>>

storeVars == <<docs, dbPc, docIdx, chunkIdx, document, document_chunk, txDocument,
               txChunk, txState, nextId, ids, error, rollbacks, result, clientHeld>>

categoryVars == <<scanPath, loaded>>

rechunkVars == <<allChunks, docsChunked>>

ingestVars == <<ingestDocs, ingestPc, ingestChunks, requests, inFlight, embeddedChunks,
                docsToInsert>>

retrieveVars == <<stored, topK, queryText, filterCategory, retrPc, scanned, results>>

generateVars == <<argv, genPc, warnings, modelCalls, generated>>

logVars == <<chunkLog>>

clientVars == <<dbOp, clientGiven, opPc, pendingQueries, acquired, released>>

evalVars == <<evalPc, evaluations, evalWarnings, evalResult>>

cliVars == <<parsedArgs>>

vars == <<chunkVars, storeVars, categoryVars, rechunkVars, ingestVars, retrieveVars,
          generateVars, logVars, clientVars, evalVars, cliVars>>

\* what the steps of one part of the program leave alone
nonChunkVars ==
    <<storeVars, categoryVars, rechunkVars, ingestVars, retrieveVars,
      generateVars, logVars, clientVars, evalVars, cliVars>>
nonStoreVars ==
    <<chunkVars, categoryVars, rechunkVars, ingestVars, retrieveVars,
      generateVars, logVars, clientVars, evalVars, cliVars>>
nonCategoryVars ==
    <<chunkVars, storeVars, rechunkVars, ingestVars, retrieveVars,
      generateVars, logVars, clientVars, evalVars, cliVars>>
nonRechunkVars ==
    <<storeVars, categoryVars, ingestVars, retrieveVars, generateVars,
      logVars, clientVars, evalVars, cliVars>>
nonIngestVars ==
    <<chunkVars, categoryVars, rechunkVars, retrieveVars, generateVars,
      logVars, clientVars, evalVars, cliVars>>
nonRetrieveVars ==
    <<chunkVars, storeVars, categoryVars, rechunkVars, ingestVars,
      generateVars, logVars, clientVars, evalVars, cliVars>>
nonGenerateVars ==
    <<chunkVars, storeVars, categoryVars, rechunkVars, ingestVars,
      logVars, clientVars, evalVars, cliVars>>
nonClientVars ==
    <<chunkVars, storeVars, categoryVars, rechunkVars, ingestVars,
      retrieveVars, generateVars, logVars, evalVars, cliVars>>
nonEvalVars ==
    <<chunkVars, storeVars, categoryVars, rechunkVars, ingestVars,
      generateVars, logVars, clientVars, cliVars>>
nonCliVars ==
    <<chunkVars, storeVars, categoryVars, rechunkVars, ingestVars,
      retrieveVars, generateVars, logVars, clientVars, evalVars>>

-----------------------------------------------------------------------------
(* Bounds of the chunking model *)

MaxLen == 3         \* longest document content
MaxFragLen == 2     \* longest fragment a splitter returns
MaxFrags == 2       \* most fragments a splitter returns
MaxOverlap == 1     \* largest chunkOverlap

Alphabet == {"a", " "}

Strings(n) == UNION {[1..k -> Alphabet] : k \in 0..n}

\* getChunkConfig validates nothing: chunkOverlap < chunkSize, chunkOverlap >=
\* chunkSize and a negative chunkOverlap all occur. chunkSize is only handed to
\* the splitter.
Configs == [chunkSize : MaxOverlap..(MaxOverlap + 1), chunkOverlap : (-1)..MaxOverlap]

\* A splitter is a parameter of chunkDocument: it may return any fragments.
SplitterOutputs == UNION {[1..k -> Strings(MaxFragLen)] : k \in 0..MaxFrags}

-----------------------------------------------------------------------------
(* JavaScript built-ins used by chunk.ts *)

Min(a, b) == IF a <= b THEN a ELSE b
Max(a, b) == IF a >= b THEN a ELSE b

IsWhitespace(c) == c = " "

RECURSIVE trimStart(_)
trimStart(s) ==
    IF s # <<>> /\ IsWhitespace(Head(s)) THEN trimStart(Tail(s)) ELSE s

trimEndKept(s) == s

RECURSIVE trimEnd(_)
trimEnd(s) ==
    IF s # <<>> /\ IsWhitespace(s[Len(s)]) THEN trimEnd(SubSeq(s, 1, Len(s) - 1)) ELSE s

trim(s) == trimEnd(trimStart(s))

\* s.slice(from, to) for 0 <= from, to
slice(s, from, to) == SubSeq(s, from + 1, Min(to, Len(s)))

\* s.indexOf(t, from): the position is clamped to [0, s.length]
indexOf(s, t, from) ==
    LET p == Min(Max(from, 0), Len(s))
        hits == {i \in p..(Len(s) - Len(t)) : SubSeq(s, i + 1, i + Len(t)) = t}
    IN  IF hits = {} THEN -1 ELSE CHOOSE i \in hits : \A j \in hits : i <= j

-----------------------------------------------------------------------------
(* findChunkOffsets *)

SearchStartAtPreviousEnd(previousEnd, chunkOverlap) == Max(0, previousEnd)

SearchStart(previousEnd, chunkOverlap) == Max(0, previousEnd - chunkOverlap)

ResolveStart(text, chunk, searchStart) ==
    LET anchored == indexOf(text, chunk, searchStart)
        retried == IF anchored = -1 /\ searchStart > 0
                   THEN indexOf(text, chunk, 0)
                   ELSE anchored
    IN  IF retried = -1 THEN searchStart ELSE retried

EndOffsetMissesLast(text, chunk, startOffset) ==
    Min(startOffset + Len(chunk) - 1, Len(text))

EndOffset(text, chunk, startOffset) ==
    Min(startOffset + Len(chunk), Len(text))

RECURSIVE findChunkOffsetsFrom(_, _, _, _)
findChunkOffsetsFrom(text, splits, chunkOverlap, previousEnd) ==
    IF splits = <<>> THEN <<>>
    ELSE LET chunk == Head(splits)
             startOffset == ResolveStart(text, chunk, SearchStart(previousEnd, chunkOverlap))
             endOffset == EndOffset(text, chunk, startOffset)
         IN  <<[startOffset |-> startOffset, endOffset |-> endOffset]>>
                 \o findChunkOffsetsFrom(text, Tail(splits), chunkOverlap, endOffset)

findChunkOffsets(text, splits, chunkOverlap) ==
    findChunkOffsetsFrom(text, splits, chunkOverlap, 0)

-----------------------------------------------------------------------------
(* chunkDocument *)

IsBlankUntrimmed(text) == Len(text) = 0

IsBlank(text) == Len(trim(text)) = 0

RECURSIVE FilterSplits(_)
FilterSplits(splits) ==
    IF splits = <<>> THEN <<>>
    ELSE IF Len(trim(Head(splits))) > 0
         THEN <<Head(splits)>> \o FilterSplits(Tail(splits))
         ELSE FilterSplits(Tail(splits))

SafeEndOffsetUnclamped(startOffset, endOffset) == endOffset

SafeEndOffset(startOffset, endOffset) == Max(startOffset, endOffset)

NextChunkIndexStuck(chunkIndex) == chunkIndex

NextChunkIndex(chunkIndex) == chunkIndex + 1

\* the loop of chunkDocument from position i of splits on
RECURSIVE BuildChunks(_, _, _, _, _)
BuildChunks(text, splits, offsets, i, chunkIndex) ==
    IF i > Len(splits) THEN <<>>
    ELSE LET rawSplit == splits[i]
             trimmedSplit == trim(rawSplit)
         IN  IF Len(trimmedSplit) = 0
             THEN BuildChunks(text, splits, offsets, i + 1, chunkIndex)
             ELSE LET resolved == offsets[i]
                      leadingTrim == Len(rawSplit) - Len(trimStart(rawSplit))
                      trailingTrim == Len(rawSplit) - Len(trimEnd(rawSplit))
                      startOffset == Min(resolved.startOffset + leadingTrim, Len(text))
                      endOffset == Min(resolved.endOffset - trailingTrim, Len(text))
                  IN  <<[content |-> trimmedSplit,
                         chunkIndex |-> chunkIndex,
                         startOffset |-> startOffset,
                         endOffset |-> SafeEndOffset(startOffset, endOffset)]>>
                          \o BuildChunks(text, splits, offsets, i + 1,
                                         NextChunkIndex(chunkIndex))

\* chunkDocument up to the await of splitter.splitText: the blank document returns []
chunkDocument_blank ==
    /\ chunkPc = "start"
    /\ IsBlank(content)
    /\ chunks' = <<>>
    /\ chunkPc' = "done"
    /\ UNCHANGED <<content, config, rawSplits, keptSplits, chunkOffsets, splitterCalls,
                   resolverCalls>>
    /\ UNCHANGED nonChunkVars

\* chunkDocument calls splitter.splitText(content) and awaits it
chunkDocument_splitText ==
    /\ chunkPc = "start"
    /\ ~IsBlank(content)
    /\ \E out \in SplitterOutputs : rawSplits' = out
    /\ splitterCalls' = splitterCalls + 1
    /\ chunkPc' = "split"
    /\ UNCHANGED <<content, config, keptSplits, chunkOffsets, chunks, resolverCalls>>
    /\ UNCHANGED nonChunkVars

\* chunkDocument after the await: filter, resolve offsets, build the chunks
chunkDocument_resume ==
    /\ chunkPc = "split"
    /\ keptSplits' = FilterSplits(rawSplits)
    /\ IF Len(keptSplits') = 0
       THEN /\ chunkOffsets' = <<>>
            /\ chunks' = <<>>
            /\ resolverCalls' = resolverCalls
       ELSE /\ chunkOffsets' = findChunkOffsets(content, keptSplits', config.chunkOverlap)
            /\ chunks' = BuildChunks(content, keptSplits', chunkOffsets', 1, 0)
            /\ resolverCalls' = resolverCalls + 1
    /\ chunkPc' = "done"
    /\ UNCHANGED <<content, config, rawSplits, splitterCalls>>
    /\ UNCHANGED nonChunkVars

ChunkStart ==
    /\ rawSplits = <<>>
    /\ keptSplits = <<>>
    /\ chunkOffsets = <<>>
    /\ chunks = <<>>
    /\ chunkPc = "start"
    /\ splitterCalls = 0
    /\ resolverCalls = 0

ChunkNext ==
    \/ chunkDocument_blank
    \/ chunkDocument_splitText
    \/ chunkDocument_resume

-----------------------------------------------------------------------------
(* insertDocuments: one transaction around the inserts of a batch *)

MaxDocs == 2            \* most documents handed to insertDocuments
MaxChunksPerDoc == 2    \* most chunks of one document

DocInputs == UNION {[1..k -> 0..MaxChunksPerDoc] : k \in 0..MaxDocs}

\* how a rejected query may leave the client's transaction: aborted by the
\* server, or still open (the rejection came from the connection)
AfterFailure == {"aborted", "open"}

\* insertDocument / insertDocumentChunks are handed the transaction's client;
\* without one they run on a pool connection of their own (autocommit)
InsertClientOmitted == "pool"

InsertClient == "client"

\* the query the catch block sends
CatchQueryCommits == "COMMIT"

CatchQuery == "ROLLBACK"

\* what the catch block leaves as the outcome after its query: throw error
RethrowSwallowed(e) == "ids"

Rethrow(e) == "error"

\* rows committed once the server ran a transaction-ending query
CommittedAfter(query, state, committed, pending) ==
    IF query = "COMMIT" /\ state = "open" THEN committed \cup pending ELSE committed

DocumentRow(id, k) == [id |-> id, input |-> k]

ChunkRow(documentId, c) == [documentId |-> documentId, chunkIndex |-> c - 1]

\* where the loops of insertDocuments / insertDocumentChunks go after document k
\* with c of its chunks written
AfterChunk(k, c) ==
    IF c < docs[k] THEN <<"insertChunk", k, c + 1>>
    ELSE IF k < Len(docs) THEN <<"insertDocument", k + 1, 0>>
    ELSE <<"commit", k, c>>

\* a query inside try rejected: control goes to the catch block
Caught(step) ==
    /\ error' = [step |-> step, doc |-> docIdx]
    /\ dbPc' = "catch"
    /\ \E st \in AfterFailure : txState' = IF txState = "none" THEN "none" ELSE st

\* insertDocuments up to its first query: the empty batch returns [], otherwise
\* a client is acquired and BEGIN is sent
insertDocuments_call ==
    /\ dbPc = "idle"
    /\ \E d \in DocInputs :
        /\ docs' = d
        /\ IF Len(d) = 0
           THEN /\ result' = "ids"
                /\ dbPc' = "returned"
                /\ clientHeld' = FALSE
           ELSE /\ result' = "pending"
                /\ dbPc' = "begin"
                /\ clientHeld' = TRUE
    /\ UNCHANGED <<docIdx, chunkIdx, document, document_chunk, txDocument, txChunk,
                   txState, nextId, ids, error, rollbacks>>
    /\ UNCHANGED nonStoreVars

\* await client.query("BEGIN")
query_BEGIN ==
    /\ dbPc = "begin"
    /\ \/ /\ txState' = "open"
          /\ dbPc' = "insertDocument"
          /\ docIdx' = 1
          /\ UNCHANGED error
       \/ /\ Caught("BEGIN")
          /\ UNCHANGED docIdx
    /\ UNCHANGED <<docs, chunkIdx, document, document_chunk, txDocument, txChunk,
                   nextId, ids, rollbacks, result, clientHeld>>
    /\ UNCHANGED nonStoreVars

\* await insertDocument(doc.document, client); ids.push(documentId)
insertDocument_query ==
    /\ dbPc = "insertDocument"
    /\ \/ /\ LET row == DocumentRow(nextId, docIdx)
                 next == AfterChunk(docIdx, 0)
             IN  /\ IF InsertClient = "client" /\ txState = "open"
                    THEN /\ txDocument' = txDocument \cup {row}
                         /\ UNCHANGED document
                    ELSE /\ document' = document \cup {row}
                         /\ UNCHANGED txDocument
                 /\ ids' = Append(ids, nextId)
                 /\ nextId' = nextId + 1
                 /\ dbPc' = next[1]
                 /\ docIdx' = next[2]
                 /\ chunkIdx' = next[3]
          /\ UNCHANGED <<error, txState>>
       \/ /\ Caught("document")
          /\ UNCHANGED <<document, txDocument, ids, nextId, docIdx, chunkIdx>>
    /\ UNCHANGED <<docs, document_chunk, txChunk, rollbacks, result, clientHeld>>
    /\ UNCHANGED nonStoreVars

\* one iteration of insertDocumentChunks(documentId, doc.chunks, client)
insertDocumentChunks_query ==
    /\ dbPc = "insertChunk"
    /\ \/ /\ LET row == ChunkRow(ids[docIdx], chunkIdx)
                 next == AfterChunk(docIdx, chunkIdx)
             IN  /\ IF InsertClient = "client" /\ txState = "open"
                    THEN /\ txChunk' = txChunk \cup {row}
                         /\ UNCHANGED document_chunk
                    ELSE /\ document_chunk' = document_chunk \cup {row}
                         /\ UNCHANGED txChunk
                 /\ dbPc' = next[1]
                 /\ docIdx' = next[2]
                 /\ chunkIdx' = next[3]
          /\ UNCHANGED <<error, txState>>
       \/ /\ Caught("chunk")
          /\ UNCHANGED <<document_chunk, txChunk, docIdx, chunkIdx>>
    /\ UNCHANGED <<docs, document, txDocument, nextId, ids, rollbacks, result, clientHeld>>
    /\ UNCHANGED nonStoreVars

\* await client.query("COMMIT"); return ids; finally client.release()
query_COMMIT ==
    /\ dbPc = "commit"
    /\ \/ /\ document' = CommittedAfter("COMMIT", txState, document, txDocument)
          /\ document_chunk' = CommittedAfter("COMMIT", txState, document_chunk, txChunk)
          /\ txDocument' = {}
          /\ txChunk' = {}
          /\ txState' = "none"
          /\ result' = "ids"
          /\ dbPc' = "returned"
          /\ clientHeld' = FALSE
          /\ UNCHANGED error
       \/ /\ Caught("COMMIT")
          /\ UNCHANGED <<document, document_chunk, txDocument, txChunk, result, clientHeld>>
    /\ UNCHANGED <<docs, docIdx, chunkIdx, nextId, ids, rollbacks>>
    /\ UNCHANGED nonStoreVars

\* catch: await client.query("ROLLBACK"); throw error; finally client.release().
\* When ROLLBACK itself rejects, its rejection leaves the function instead.
insertDocuments_catch ==
    /\ dbPc = "catch"
    /\ rollbacks' = rollbacks + 1
    /\ \/ /\ document' = CommittedAfter(CatchQuery, txState, document, txDocument)
          /\ document_chunk' = CommittedAfter(CatchQuery, txState, document_chunk, txChunk)
          /\ txDocument' = {}
          /\ txChunk' = {}
          /\ txState' = "none"
          /\ result' = Rethrow(error)
          /\ UNCHANGED error
       \/ /\ result' = "rollbackError"
          /\ UNCHANGED <<document, document_chunk, txDocument, txChunk, txState, error>>
    /\ dbPc' = "returned"
    /\ clientHeld' = FALSE
    /\ UNCHANGED <<docs, docIdx, chunkIdx, nextId, ids>>
    /\ UNCHANGED nonStoreVars

\* the process ends: closePool() ends the connections, and the server drops
\* what a connection's open transaction wrote
closePool ==
    /\ dbPc = "returned"
    /\ dbPc' = "closed"
    /\ txDocument' = {}
    /\ txChunk' = {}
    /\ txState' = "none"
    /\ UNCHANGED <<docs, docIdx, chunkIdx, document, document_chunk, nextId, ids,
                   error, rollbacks, result, clientHeld>>
    /\ UNCHANGED nonStoreVars

StoreStart ==
    /\ docs = <<>>
    /\ dbPc = "idle"
    /\ docIdx = 0
    /\ chunkIdx = 0
    /\ document = {}
    /\ document_chunk = {}
    /\ txDocument = {}
    /\ txChunk = {}
    /\ txState = "none"
    /\ nextId = 1
    /\ ids = <<>>
    /\ error = [step |-> "none", doc |-> 0]
    /\ rollbacks = 0
    /\ result = "pending"
    /\ clientHeld = FALSE

StoreNext ==
    \/ insertDocuments_call
    \/ query_BEGIN
    \/ insertDocument_query
    \/ insertDocumentChunks_query
    \/ query_COMMIT
    \/ insertDocuments_catch
    \/ closePool

-----------------------------------------------------------------------------
(* ingest.ts: the category of a loaded document *)

MaxDepth == 3       \* entries on the deepest path: directories, then the file
MaxNameLen == 2     \* longest entry name

NameAlphabet == {"a", "b"}

Names == UNION {[1..k -> NameAlphabet] : k \in 1..MaxNameLen}

\* findMarkdownFiles descends with path.join(directory, entry.name): a file is
\* reached through a sequence of entry names, the last one the file's own.
ScanPaths == UNION {[1..k -> Names] : k \in 1..MaxDepth}

sep == "/"

RECURSIVE join(_, _)
join(parts, separator) ==
    IF parts = <<>> THEN <<>>
    ELSE IF Len(parts) = 1 THEN parts[1]
    ELSE parts[1] \o <<separator>> \o join(Tail(parts), separator)

\* path.relative(baseDirectory, filePath) of a file found below baseDirectory
relative(entries) == join(entries, sep)

lastIndexOf(s, c) ==
    LET hits == {i \in 0..(Len(s) - 1) : s[i + 1] = c}
    IN  IF hits = {} THEN -1 ELSE CHOOSE i \in hits : \A j \in hits : i >= j

\* path.dirname
dirname(p) ==
    LET i == lastIndexOf(p, sep)
    IN  IF i = -1 THEN <<".">>
        ELSE IF i = 0 THEN <<sep>>
        ELSE slice(p, 0, i)

RECURSIVE split(_, _)
split(s, separator) ==
    LET i == indexOf(s, <<separator>>, 0)
    IN  IF i = -1 THEN <<s>>
        ELSE <<slice(s, 0, i)>> \o split(slice(s, i + 1, Len(s)), separator)

General == <<"g", "e", "n", "e", "r", "a", "l">>

CategoryPartNearest(parts) == parts[Len(parts)]

CategoryPart(parts) == parts[1]

extractCategory(relativePath) ==
    LET dir == dirname(relativePath)
    IN  IF dir = <<".">> \/ dir = <<>> THEN General
        ELSE CategoryPart(split(dir, sep))

NotLoaded == [filePath |-> <<>>, category |-> <<>>]

loadMarkdownFile ==
    /\ scanPath # <<>>
    /\ loaded = NotLoaded
    /\ LET relativePath == relative(scanPath)
       IN  loaded' = [filePath |-> relativePath, category |-> extractCategory(relativePath)]
    /\ UNCHANGED scanPath
    /\ UNCHANGED nonCategoryVars

CategoryStart ==
    /\ scanPath = <<>>
    /\ loaded = NotLoaded

CategoryNext == loadMarkdownFile

-----------------------------------------------------------------------------
(* chunk.ts: chunkDocuments, one splitter shared by every document *)

\* The document list holds the same document twice.
Documents(text) == <<text, text>>

\* The splitter is asked for the fragments of a text it has split before: it
\* has no state of its own, so it answers as it did.
SplitTextAgain(earlier) == {earlier}

FirstChunkIndexCarried(earlier) == Len(earlier)

\* let chunkIndex = 0: a local of each chunkDocument call, whatever the calls
\* before it produced
FirstChunkIndex(earlier) == 0

chunkDocuments_blank ==
    /\ chunkPc = "start"
    /\ docsChunked < Len(Documents(content))
    /\ IsBlank(content)
    /\ chunks' = <<>>
    /\ docsChunked' = docsChunked + 1
    /\ chunkPc' = IF docsChunked' = Len(Documents(content)) THEN "done" ELSE "start"
    /\ UNCHANGED <<content, config, rawSplits, keptSplits, chunkOffsets, splitterCalls,
                   resolverCalls, allChunks>>
    /\ UNCHANGED nonRechunkVars

chunkDocuments_splitText ==
    /\ chunkPc = "start"
    /\ docsChunked < Len(Documents(content))
    /\ ~IsBlank(content)
    /\ \E out \in (IF docsChunked = 0 THEN SplitterOutputs ELSE SplitTextAgain(rawSplits)) :
          rawSplits' = out
    /\ splitterCalls' = splitterCalls + 1
    /\ chunkPc' = "split"
    /\ UNCHANGED <<content, config, keptSplits, chunkOffsets, chunks, resolverCalls,
                   allChunks, docsChunked>>
    /\ UNCHANGED nonRechunkVars

chunkDocuments_push ==
    /\ chunkPc = "split"
    /\ docsChunked < Len(Documents(content))
    /\ keptSplits' = FilterSplits(rawSplits)
    /\ IF keptSplits' = <<>>
       THEN /\ chunkOffsets' = <<>>
            /\ chunks' = <<>>
            /\ UNCHANGED resolverCalls
       ELSE /\ chunkOffsets' = findChunkOffsets(content, keptSplits', config.chunkOverlap)
            /\ chunks' = BuildChunks(content, keptSplits', chunkOffsets', 1,
                                     FirstChunkIndex(allChunks))
            /\ resolverCalls' = resolverCalls + 1
    /\ allChunks' = allChunks \o chunks'
    /\ docsChunked' = docsChunked + 1
    /\ chunkPc' = IF docsChunked' = Len(Documents(content)) THEN "done" ELSE "start"
    /\ UNCHANGED <<content, config, rawSplits, splitterCalls>>
    /\ UNCHANGED nonRechunkVars

RechunkStart ==
    /\ allChunks = <<>>
    /\ docsChunked = 0

RechunkNext ==
    \/ chunkDocuments_blank
    \/ chunkDocuments_splitText
    \/ chunkDocuments_push

-----------------------------------------------------------------------------
(* ingest.ts and embed.ts: one ingestion run *)

\* A document is identified by its filePath, here its position in documents;
\* its content is represented by the number of chunks chunkDocument makes of it.
ChunksOfDocument(filePath, n) ==
    [j \in 1..n |-> [filePath |-> filePath, chunkIndex |-> j - 1]]

RECURSIVE chunkDocumentsFrom(_, _)
chunkDocumentsFrom(documents, k) ==
    IF k > Len(documents) THEN <<>>
    ELSE ChunksOfDocument(k, documents[k]) \o chunkDocumentsFrom(documents, k + 1)

chunkDocuments(documents) == chunkDocumentsFrom(documents, 1)

MayCallUnawaited(called, settled) == TRUE

\* embedChunks awaits each generateEmbedding before the loop goes on
MayCall(called, settled) == called = settled

\* the vector Bedrock answers for a chunk: named after the chunk it embeds
EmbeddedChunk(chunk) ==
    [filePath |-> chunk.filePath, chunkIndex |-> chunk.chunkIndex, embedding |-> chunk]

EmbeddingDoneEarly(embedded, toEmbed) == Len(embedded) >= 1

\* for (const chunk of chunks) has run through: embedChunks returns
EmbeddingDone(embedded, toEmbed) == Len(embedded) = Len(toEmbed)

KeepEveryDocument(doc) == TRUE

\* .filter((doc) => doc.chunks.length > 0)
KeepDocument(doc) == Len(doc.chunks) > 0

chunksByFilePathAll(embedded, filePath) == embedded

\* chunksByFilePath.get(document.filePath) || []
chunksByFilePath(embedded, filePath) ==
    SelectSeq(embedded, LAMBDA c : c.filePath = filePath)

buildDocumentInputs(documents, embedded) ==
    SelectSeq([k \in 1..Len(documents) |->
                  [filePath |-> k, chunks |-> chunksByFilePath(embedded, k)]],
              KeepDocument)

\* ingest up to await chunkDocuments(documents), and on to the first
\* generateEmbedding call or to the early return
ingest_chunkDocuments ==
    /\ ingestPc = "start"
    /\ ingestChunks' = chunkDocuments(ingestDocs)
    /\ ingestPc' = IF Len(ingestDocs) = 0 \/ Len(ingestChunks') = 0
                   THEN "skipped" ELSE "embedding"
    /\ UNCHANGED <<ingestDocs, requests, inFlight, embeddedChunks, docsToInsert>>
    /\ UNCHANGED storeVars
    /\ UNCHANGED nonIngestVars

\* embedChunks: the loop calls generateEmbedding for the next chunk
generateEmbedding_send ==
    /\ ingestPc = "embedding"
    /\ Len(requests) < Len(ingestChunks)
    /\ MayCall(Len(requests), Len(embeddedChunks))
    /\ requests' = Append(requests, Len(requests) + 1)
    /\ inFlight' = inFlight \cup {Len(requests) + 1}
    /\ UNCHANGED <<ingestDocs, ingestPc, ingestChunks, embeddedChunks, docsToInsert>>
    /\ UNCHANGED storeVars
    /\ UNCHANGED nonIngestVars

\* a generateEmbedding call resolves: embeddedChunks.push({...chunk, embedding})
generateEmbedding_resolve ==
    /\ ingestPc = "embedding"
    /\ \E r \in inFlight :
          /\ embeddedChunks' = Append(embeddedChunks, EmbeddedChunk(ingestChunks[r]))
          /\ inFlight' = inFlight \ {r}
    /\ ingestPc' = IF EmbeddingDone(embeddedChunks', ingestChunks) THEN "embedded"
                   ELSE "embedding"
    /\ UNCHANGED <<ingestDocs, ingestChunks, requests, docsToInsert>>
    /\ UNCHANGED storeVars
    /\ UNCHANGED nonIngestVars

\* a generateEmbedding call rejects: embedChunks and ingest reject with it
generateEmbedding_reject ==
    /\ ingestPc = "embedding"
    /\ \E r \in inFlight : inFlight' = inFlight \ {r}
    /\ ingestPc' = "failed"
    /\ UNCHANGED <<ingestDocs, ingestChunks, requests, embeddedChunks, docsToInsert>>
    /\ UNCHANGED storeVars
    /\ UNCHANGED nonIngestVars

\* embedChunks resolved: buildDocumentInputs, then insertDocuments(docsToInsert)
\* up to await getClient()
ingest_insertDocuments ==
    /\ ingestPc = "embedded"
    /\ dbPc = "idle"
    /\ docsToInsert' = buildDocumentInputs(ingestDocs, embeddedChunks)
    /\ docs' = [k \in 1..Len(docsToInsert') |-> Len(docsToInsert'[k].chunks)]
    /\ ingestPc' = "inserting"
    /\ IF Len(docsToInsert') = 0
       THEN /\ result' = "ids"
            /\ dbPc' = "returned"
            /\ clientHeld' = FALSE
       ELSE /\ result' = "pending"
            /\ dbPc' = "begin"
            /\ clientHeld' = TRUE
    /\ UNCHANGED <<docIdx, chunkIdx, document, document_chunk, txDocument, txChunk,
                   txState, nextId, ids, error, rollbacks>>
    /\ UNCHANGED <<ingestDocs, ingestChunks, requests, inFlight, embeddedChunks>>
    /\ UNCHANGED nonIngestVars

\* insertDocuments settled: ingest returns documents or rejects
ingest_return ==
    /\ ingestPc = "inserting"
    /\ dbPc = "returned"
    /\ ingestPc' = IF result = "ids" THEN "done" ELSE "failed"
    /\ UNCHANGED <<ingestDocs, ingestChunks, requests, inFlight, embeddedChunks, docsToInsert>>
    /\ UNCHANGED storeVars
    /\ UNCHANGED nonIngestVars

IngestStart ==
    /\ ingestDocs = <<>>
    /\ ingestPc = "start"
    /\ ingestChunks = <<>>
    /\ requests = <<>>
    /\ inFlight = {}
    /\ embeddedChunks = <<>>
    /\ docsToInsert = <<>>

IngestNext ==
    \/ ingest_chunkDocuments
    \/ generateEmbedding_send
    \/ generateEmbedding_resolve
    \/ generateEmbedding_reject
    \/ ingest_insertDocuments
    \/ query_BEGIN
    \/ insertDocument_query
    \/ insertDocumentChunks_query
    \/ query_COMMIT
    \/ insertDocuments_catch
    \/ ingest_return

-----------------------------------------------------------------------------
(* retrieve and database.ts: searchByVector *)

MaxRows == 3        \* most chunk rows in the store
MaxDistance == 1    \* largest cosine distance of a stored embedding from the query's
MaxTopK == 2        \* largest RETRIEVAL_TOP_K

Categories == {"shipping", "general"}

\* category ?? null: what the statement receives when no category is given
Null == "null"

Stores ==
    UNION {[1..n -> [category : Categories, distance : 0..MaxDistance]] : n \in 0..MaxRows}

\* ORDER BY dc.embedding <=> $1 over an ivfflat index: the plan is either a
\* sequential scan, which compares every row, or an index scan, which compares
\* only the rows of the lists it probes.
Scans(rows) == SUBSET rows

PassesFilterAlways(row, category) == TRUE

\* $3::text IS NULL OR d.category = $3
PassesFilter(row, category) == category = Null \/ row.category = category

LimitIgnored(limit, n) == n

\* LIMIT $2
Limit(limit, n) == Min(limit, n)

\* 1 - (dc.embedding <=> $1) as similarity
Similarity(distance) == 1 - distance

SearchResult(rows, id) ==
    [id |-> id, category |-> rows[id].category, similarity |-> Similarity(rows[id].distance)]

\* every row sequence the statement may return from the rows compared: the
\* first Limit of them by ascending distance, rows of equal distance in any order
searchByVector(rows, compared, limit, category) ==
    LET matching == {id \in compared : PassesFilter(rows[id], category)}
        n == Limit(limit, Cardinality(matching))
        orders == {r \in [1..n -> matching] :
                      /\ \A i, j \in 1..n : i < j => r[i] # r[j]
                      /\ \A i, j \in 1..n : i < j => rows[r[i]].distance <= rows[r[j]].distance
                      /\ \A id \in matching :
                            (\A i \in 1..n : r[i] # id) =>
                                \A i \in 1..n : rows[r[i]].distance <= rows[id].distance}
    IN  {[i \in 1..n |-> SearchResult(rows, r[i])] : r \in orders}

\* retrieve(query, category) up to await generateEmbedding
retrieve_call ==
    /\ retrPc = "start"
    /\ retrPc' = "embedding"
    /\ UNCHANGED <<stored, topK, queryText, filterCategory, scanned, results>>
    /\ UNCHANGED nonRetrieveVars

\* generateEmbedding settled: searchByVector is called, or retrieve rejects
retrieve_embedded ==
    /\ retrPc = "embedding"
    /\ retrPc' \in {"searching", "rejected"}
    /\ UNCHANGED <<stored, topK, queryText, filterCategory, scanned, results>>
    /\ UNCHANGED nonRetrieveVars

\* searchByVector settled: retrieve resolves with the rows, or rejects
retrieve_searched ==
    /\ retrPc = "searching"
    /\ \/ /\ \E compared \in Scans(DOMAIN stored) :
                /\ scanned' = compared
                /\ results' \in searchByVector(stored, compared, topK, filterCategory)
          /\ retrPc' = "resolved"
       \/ /\ retrPc' = "rejected"
          /\ UNCHANGED <<scanned, results>>
    /\ UNCHANGED <<stored, topK, queryText, filterCategory>>
    /\ UNCHANGED nonRetrieveVars

RetrieveStart ==
    /\ stored = <<>>
    /\ topK = 1
    /\ queryText = <<>>
    /\ filterCategory = Null
    /\ retrPc = "idle"
    /\ scanned = {}
    /\ results = <<>>

RetrieveNext ==
    \/ retrieve_call
    \/ retrieve_embedded
    \/ retrieve_searched

-----------------------------------------------------------------------------
(* generate.ts: main and generate *)

MaxArgs == 3        \* most command-line arguments after the script path

\* An argument is a sequence of words; a string is its words and the spaces
\* between them.
ArgValues == {<<"q">>, <<"--category">>, <<"shipping">>}

Argvs ==
    UNION {{<<<<"node">>, <<"generate">>>> \o a : a \in [1..n -> ArgValues]} : n \in 0..MaxArgs}

\* stores whose chunks all differ in distance from the query
RankedStores ==
    UNION {{[id \in 1..n |-> [category |-> c[id], distance |-> id - 1]] :
               c \in [1..n -> Categories]} : n \in 0..MaxRows}

NullQuery == <<Null>>

getQueryFromArgs(args) ==
    LET relevantArgs == slice(args, 2, Len(args))
    IN  IF Len(relevantArgs) = 0 THEN NullQuery
        ELSE trim(join(relevantArgs, " "))

AfterRetrieveRethrown(outcome) == IF outcome = "rejected" THEN "failed" ELSE "generating"

\* try { await retrieve(query) } catch { ... }: generate goes on to
\* generateResponse however retrieve settled
AfterRetrieve(outcome) == "generating"

NotGenerated == [query |-> <<>>, context |-> <<>>, contextCount |-> 0]

\* main: getQueryFromArgs, then generate(query) up to the await inside
\* retrieve(query); no category is passed to retrieve
generate_main ==
    /\ genPc = "start"
    /\ LET q == getQueryFromArgs(argv)
       IN  IF q = NullQuery \/ q = <<>>
           THEN /\ genPc' = "usage"
                /\ UNCHANGED <<queryText, filterCategory, retrPc>>
           ELSE /\ genPc' = "retrieving"
                /\ queryText' = q
                /\ filterCategory' = Null
                /\ retrPc' = "embedding"
    /\ UNCHANGED <<argv, warnings, modelCalls, generated>>
    /\ UNCHANGED <<stored, topK, scanned, results>>
    /\ UNCHANGED nonGenerateVars

\* retrieve settled: the catch block on rejection, then generateResponse is called
generate_retrieved ==
    /\ genPc = "retrieving"
    /\ retrPc \in {"resolved", "rejected"}
    /\ warnings' = IF retrPc = "rejected" THEN warnings + 1 ELSE warnings
    /\ genPc' = AfterRetrieve(retrPc)
    /\ modelCalls' =
          IF genPc' = "generating"
          THEN Append(modelCalls,
                      [query |-> queryText,
                       context |-> IF retrPc = "rejected" THEN <<>> ELSE results])
          ELSE modelCalls
    /\ UNCHANGED <<argv, generated>>
    /\ UNCHANGED retrieveVars
    /\ UNCHANGED nonGenerateVars

\* generateResponse settled: generate resolves with the result, or rejects
generate_responded ==
    /\ genPc = "generating"
    /\ \/ /\ genPc' = "done"
          /\ LET call == modelCalls[Len(modelCalls)]
             IN  generated' = [query |-> call.query, context |-> call.context,
                               contextCount |-> Len(call.context)]
       \/ /\ genPc' = "failed"
          /\ UNCHANGED generated
    /\ UNCHANGED <<argv, warnings, modelCalls>>
    /\ UNCHANGED retrieveVars
    /\ UNCHANGED nonGenerateVars

GenerateStart ==
    /\ argv = <<>>
    /\ genPc = "idle"
    /\ warnings = 0
    /\ modelCalls = <<>>
    /\ generated = NotGenerated

GenerateNext ==
    \/ generate_main
    \/ retrieve_embedded
    \/ retrieve_searched
    \/ generate_retrieved
    \/ generate_responded

-----------------------------------------------------------------------------
(* database.ts: the pool client of a database operation *)

MaxBatch == 4       \* most rows handed to insertDocumentChunks / insertDocuments

\* the queries the body of an operation issues on rows input rows (for
\* insertDocuments: BEGIN, one document and one chunk insert per row, COMMIT)
Queries(op, rows) ==
    CASE op = "insertDocumentChunks" -> rows
      [] op = "insertDocuments" -> IF rows = 0 THEN 0 ELSE 2 * rows + 2
      [] OTHER -> 1

\* insertDocumentChunks and insertDocuments return [] on an empty input
\* before they ask for a client
ReturnsEarly(op, queries) == op \in {"insertDocumentChunks", "insertDocuments"} /\ queries = 0

\* releases made when registerVectorType rejects: insertDocument connects by
\* itself, registers inside its try and releases in finally; the other
\* operations take their client from getClient, which has no try, so the
\* rejection leaves it before any caller holds the client
ReleasesOnRegisterFailure(op) == IF op = "insertDocument" THEN 1 ELSE 0

\* poolInstance.connect() settles
pool_connect ==
    /\ opPc = "called"
    /\ ~clientGiven
    /\ ~ReturnsEarly(dbOp, pendingQueries)
    /\ \E ok \in BOOLEAN :
          IF ok
          THEN /\ acquired' = acquired + 1
               /\ opPc' = "connected"
          ELSE /\ acquired' = acquired
               /\ opPc' = "threw"
    /\ UNCHANGED <<dbOp, clientGiven, pendingQueries, released>>
    /\ UNCHANGED nonClientVars

\* called with a client: the body runs on it at once
op_givenClient ==
    /\ opPc = "called"
    /\ clientGiven
    /\ ~ReturnsEarly(dbOp, pendingQueries)
    /\ opPc' = "body"
    /\ UNCHANGED <<dbOp, clientGiven, pendingQueries, acquired, released>>
    /\ UNCHANGED nonClientVars

\* the early return on an empty input
op_returnEmpty ==
    /\ opPc = "called"
    /\ ReturnsEarly(dbOp, pendingQueries)
    /\ opPc' = "returned"
    /\ UNCHANGED <<dbOp, clientGiven, pendingQueries, acquired, released>>
    /\ UNCHANGED nonClientVars

\* pgvector.registerType(client) settles
registerVectorType ==
    /\ opPc = "connected"
    /\ \E ok \in BOOLEAN :
          IF ok
          THEN /\ opPc' = "body"
               /\ released' = released
          ELSE /\ opPc' = "threw"
               /\ released' = released + ReleasesOnRegisterFailure(dbOp)
    /\ UNCHANGED <<dbOp, clientGiven, pendingQueries, acquired>>
    /\ UNCHANGED nonClientVars

\* one client.query of the body settles; after the last one, or after a
\* failure outside a transaction, the finally block releases the client,
\* unless it is the caller's
client_query ==
    /\ opPc = "body"
    /\ pendingQueries > 0
    /\ \E ok \in BOOLEAN :
          IF ok
          THEN /\ pendingQueries' = pendingQueries - 1
               /\ opPc' = IF pendingQueries' = 0 THEN "returned" ELSE "body"
               /\ released' = IF pendingQueries' = 0
                              THEN released + (IF clientGiven THEN 0 ELSE 1)
                              ELSE released
          ELSE /\ pendingQueries' = pendingQueries
               /\ opPc' = IF dbOp = "insertDocuments" THEN "rollback" ELSE "threw"
               /\ released' = IF dbOp = "insertDocuments" THEN released
                              ELSE released + (IF clientGiven THEN 0 ELSE 1)
    /\ UNCHANGED <<dbOp, clientGiven, acquired>>
    /\ UNCHANGED nonClientVars

\* the ROLLBACK of insertDocuments' catch settles; whether it resolves (the
\* first error is rethrown) or rejects, the finally block releases the client
client_rollback ==
    /\ opPc = "rollback"
    /\ \E ok \in BOOLEAN :
          /\ opPc' = IF ok THEN "threw" ELSE "threwRollback"
          /\ released' = released + 1
    /\ UNCHANGED <<dbOp, clientGiven, pendingQueries, acquired>>
    /\ UNCHANGED nonClientVars

ClientStart ==
    /\ dbOp = "getDocumentById"
    /\ clientGiven = FALSE
    /\ opPc = "idle"
    /\ pendingQueries = 0
    /\ acquired = 0
    /\ released = 0

ClientNext ==
    \/ pool_connect
    \/ op_givenClient
    \/ op_returnEmpty
    \/ registerVectorType
    \/ client_query
    \/ client_rollback

-----------------------------------------------------------------------------
(* eval script: runEval and its judge *)

\* a missing field or a text that is no number: Number(value) is NaN
NotANumber == [finite |-> FALSE, tenths |-> 0]

\* Number(value) of a JSON value found under "relevance" or "sufficiency":
\* finite or not, and when finite written in tenths (-0.5, 1.4, 3.5 and 7)
RawScores == {[finite |-> TRUE, tenths |-> t] : t \in {-5, 14, 35, 70}} \cup {NotANumber}

\* how one judge call may end: client.send rejects, the answer holds no JSON
\* object, or it holds one with some values under the two fields
JudgeOutcomes ==
    {[kind |-> k, relevance |-> NotANumber, sufficiency |-> NotANumber] :
        k \in {"sendError", "noJson"}}
    \cup {[kind |-> "object", relevance |-> r, sufficiency |-> s] : r, s \in RawScores}

normalizeScoreUnclamped(value) == (value.tenths + 5) \div 10

\* Math.min(5, Math.max(1, Math.round(numeric))); Math.round of a value given
\* in tenths adds a half and takes the floor
normalizeScore(value) == Min(5, Max(1, (value.tenths + 5) \div 10))

\* what a rejected evaluateChunk leaves for the catch block of runEval
Thrown == [ok |-> FALSE, relevance |-> 0, sufficiency |-> 0]

\* throws unless the answer is an object whose two fields are finite numbers
parseJudgeResponse(response) ==
    IF response.kind # "object" \/ ~response.relevance.finite \/ ~response.sufficiency.finite
    THEN Thrown
    ELSE [ok |-> TRUE,
          relevance |-> normalizeScore(response.relevance),
          sufficiency |-> normalizeScore(response.sufficiency)]

evaluateChunk(outcome) ==
    IF outcome.kind = "sendError" THEN Thrown ELSE parseJudgeResponse(outcome)

\* the evaluation pushed by the catch block
FailedEvaluation(chunk) ==
    [id |-> chunk.id, relevance |-> 1, sufficiency |-> 1,
     reasoning |-> "Evaluation failed; defaulted to lowest scores."]

\* the evaluation runEval pushes for one chunk and one end of its judge call
EvaluationOf(chunk, outcome) ==
    LET e == evaluateChunk(outcome)
    IN  IF e.ok
        THEN [id |-> chunk.id, relevance |-> e.relevance, sufficiency |-> e.sufficiency,
              reasoning |-> "judge"]
        ELSE FailedEvaluation(chunk)

RECURSIVE SumOf(_, _)
\* evaluations.reduce((sum, e) => sum + e[field], 0)
SumOf(evals, field) ==
    IF evals = <<>> THEN 0
    ELSE SumOf(SubSeq(evals, 1, Len(evals) - 1), field) + evals[Len(evals)][field]

\* sum / length as a fraction, 0 for no evaluation
Average(evals, field) ==
    IF Len(evals) > 0
    THEN [num |-> SumOf(evals, field), den |-> Len(evals)]
    ELSE [num |-> 0, den |-> 1]

EvalResultOf(q, evals) ==
    [query |-> q, chunks |-> evals,
     avgRelevance |-> Average(evals, "relevance"),
     avgSufficiency |-> Average(evals, "sufficiency")]

NotEvaluated == EvalResultOf(<<>>, <<>>)

\* runEval(query, category) up to the await inside retrieve
runEval_call ==
    /\ evalPc = "start"
    /\ retrPc = "start"
    /\ evalPc' = "retrieving"
    /\ retrPc' = "embedding"
    /\ UNCHANGED <<evaluations, evalWarnings, evalResult>>
    /\ UNCHANGED <<stored, topK, queryText, filterCategory, scanned, results>>
    /\ UNCHANGED nonEvalVars

\* retrieve settled: its rejection leaves runEval, which has no try around
\* it; otherwise the first evaluateChunk is called, or, with nothing
\* retrieved, runEval returns
runEval_retrieved ==
    /\ evalPc = "retrieving"
    /\ retrPc \in {"resolved", "rejected"}
    /\ IF retrPc = "rejected"
       THEN /\ evalPc' = "failed"
            /\ UNCHANGED evalResult
       ELSE IF Len(results) = 0
       THEN /\ evalPc' = "done"
            /\ evalResult' = EvalResultOf(queryText, evaluations)
       ELSE /\ evalPc' = "judging"
            /\ UNCHANGED evalResult
    /\ UNCHANGED <<evaluations, evalWarnings>>
    /\ UNCHANGED retrieveVars
    /\ UNCHANGED nonEvalVars

\* the judge call of the next chunk settled: its evaluation, or after the
\* catch block's warning the default one, is pushed; then the next chunk is
\* sent or, after the last, runEval returns
evaluateChunk_settled ==
    /\ evalPc = "judging"
    /\ \E outcome \in JudgeOutcomes :
          LET chunk == results[Len(evaluations) + 1]
          IN  /\ evaluations' = Append(evaluations, EvaluationOf(chunk, outcome))
              /\ evalWarnings' = IF evaluateChunk(outcome).ok THEN evalWarnings
                                 ELSE evalWarnings + 1
    /\ IF Len(evaluations') = Len(results)
       THEN /\ evalPc' = "done"
            /\ evalResult' = EvalResultOf(queryText, evaluations')
       ELSE /\ evalPc' = "judging"
            /\ UNCHANGED evalResult
    /\ UNCHANGED retrieveVars
    /\ UNCHANGED nonEvalVars

EvalStart ==
    /\ evalPc = "idle"
    /\ evaluations = <<>>
    /\ evalWarnings = 0
    /\ evalResult = NotEvaluated

EvalNext ==
    \/ runEval_call
    \/ retrieve_embedded
    \/ retrieve_searched
    \/ runEval_retrieved
    \/ evaluateChunk_settled

-----------------------------------------------------------------------------
(* parseArgs: the command line of the retrieve and eval scripts *)

\* the argument "--category", character by character
CategoryFlag == <<"-", "-", "c", "a", "t", "e", "g", "o", "r", "y">>

\* command lines of arguments the shell may hand over: a word, a quoted word
\* with a leading space, the category option and another option
CliArgvs ==
    UNION {{<<<<"node">>, <<"retrieve">>>> \o a :
               a \in [1..n -> {<<"q">>, <<" ", "q">>, CategoryFlag, <<"-", "-", "x">>}]} :
           n \in 0..MaxArgs}

\* let category: string | undefined
Undefined == <<"undefined">>

startsWith(s, prefix) == Len(s) >= Len(prefix) /\ SubSeq(s, 1, Len(prefix)) = prefix

AfterCategoryKept(i) == i + 1

\* i++; continue: the index of the argument looked at after a --category
\* and its value
AfterCategory(i) == i + 2

RECURSIVE parseArgsFrom(_, _, _, _)
\* the loop of parseArgs from index i (0-based) on
parseArgsFrom(relevantArgs, i, category, queryParts) ==
    IF i >= Len(relevantArgs)
    THEN [query |-> IF Len(queryParts) > 0 THEN trim(join(queryParts, " ")) ELSE NullQuery,
          category |-> category]
    ELSE LET arg == relevantArgs[i + 1]
         IN  IF arg = CategoryFlag /\ i + 1 < Len(relevantArgs)
             THEN parseArgsFrom(relevantArgs, AfterCategory(i), relevantArgs[i + 2],
                                queryParts)
             ELSE IF ~startsWith(arg, <<"-", "-">>)
             THEN parseArgsFrom(relevantArgs, i + 1, category, Append(queryParts, arg))
             ELSE parseArgsFrom(relevantArgs, i + 1, category, queryParts)

parseArgs(args) == parseArgsFrom(slice(args, 2, Len(args)), 0, Undefined, <<>>)

NotParsed == [query |-> <<>>, category |-> <<>>]

\* main of retrieve: const { query, category } = parseArgs(process.argv)
main_parseArgs ==
    /\ parsedArgs = NotParsed
    /\ parsedArgs' = parseArgs(argv)
    /\ UNCHANGED nonCliVars

-----------------------------------------------------------------------------
(* Specifications *)

\* chunkDocument on every document, configuration and splitter result
ChunkInit ==
    /\ content \in Strings(MaxLen)
    /\ config \in Configs
    /\ ChunkStart
    /\ StoreStart
    /\ CategoryStart
    /\ RechunkStart
    /\ IngestStart
    /\ RetrieveStart
    /\ GenerateStart
    /\ chunkLog = <<>>
    /\ ClientStart
    /\ EvalStart
    /\ parsedArgs = NotParsed

SpecChunk == ChunkInit /\ [][ChunkNext]_vars

\* insertDocuments on every batch, every query free to fail
StoreInit ==
    /\ content = <<>>
    /\ config = [chunkSize |-> MaxOverlap + 1, chunkOverlap |-> 0]
    /\ ChunkStart
    /\ StoreStart
    /\ CategoryStart
    /\ RechunkStart
    /\ IngestStart
    /\ RetrieveStart
    /\ GenerateStart
    /\ chunkLog = <<>>
    /\ ClientStart
    /\ EvalStart
    /\ parsedArgs = NotParsed

SpecStore == StoreInit /\ [][StoreNext]_vars

\* loadMarkdownFile on every file position below the docs directory
CategoryInit ==
    /\ content = <<>>
    /\ config = [chunkSize |-> MaxOverlap + 1, chunkOverlap |-> 0]
    /\ ChunkStart
    /\ StoreStart
    /\ scanPath \in ScanPaths
    /\ loaded = NotLoaded
    /\ RechunkStart
    /\ IngestStart
    /\ RetrieveStart
    /\ GenerateStart
    /\ chunkLog = <<>>
    /\ ClientStart
    /\ EvalStart
    /\ parsedArgs = NotParsed

SpecCategory == CategoryInit /\ [][CategoryNext]_vars

\* chunkDocuments on a list holding one document twice, for every document,
\* every chunkOverlap below chunkSize and every splitter result
RechunkInit ==
    /\ content \in Strings(MaxLen)
    /\ config \in {c \in Configs : c.chunkSize = MaxOverlap + 1 /\ c.chunkOverlap >= 0}
    /\ ChunkStart
    /\ StoreStart
    /\ CategoryStart
    /\ RechunkStart
    /\ IngestStart
    /\ RetrieveStart
    /\ GenerateStart
    /\ chunkLog = <<>>
    /\ ClientStart
    /\ EvalStart
    /\ parsedArgs = NotParsed

SpecRechunk == RechunkInit /\ [][RechunkNext]_vars

\* one ingest run on every list of documents, every Bedrock call and every
\* query free to fail
IngestInit ==
    /\ content = <<>>
    /\ config = [chunkSize |-> MaxOverlap + 1, chunkOverlap |-> 0]
    /\ ChunkStart
    /\ StoreStart
    /\ CategoryStart
    /\ RechunkStart
    /\ ingestDocs \in DocInputs
    /\ ingestPc = "start"
    /\ ingestChunks = <<>>
    /\ requests = <<>>
    /\ inFlight = {}
    /\ embeddedChunks = <<>>
    /\ docsToInsert = <<>>
    /\ RetrieveStart
    /\ GenerateStart
    /\ chunkLog = <<>>
    /\ ClientStart
    /\ EvalStart
    /\ parsedArgs = NotParsed

SpecIngest == IngestInit /\ [][IngestNext]_vars

\* retrieve on every store content, topK and category argument, the Bedrock
\* call and the query free to fail
RetrieveInit ==
    /\ content = <<>>
    /\ config = [chunkSize |-> MaxOverlap + 1, chunkOverlap |-> 0]
    /\ ChunkStart
    /\ StoreStart
    /\ CategoryStart
    /\ RechunkStart
    /\ IngestStart
    /\ stored \in Stores
    /\ topK \in 1..MaxTopK
    /\ queryText = <<"q">>
    /\ filterCategory \in Categories \cup {Null}
    /\ retrPc = "start"
    /\ scanned = {}
    /\ results = <<>>
    /\ GenerateStart
    /\ chunkLog = <<>>
    /\ ClientStart
    /\ EvalStart
    /\ parsedArgs = NotParsed

SpecRetrieve == RetrieveInit /\ [][RetrieveNext]_vars

\* the generate script on every command line and store content, the Bedrock
\* calls and the query free to fail
GenerateInit ==
    /\ content = <<>>
    /\ config = [chunkSize |-> MaxOverlap + 1, chunkOverlap |-> 0]
    /\ ChunkStart
    /\ StoreStart
    /\ CategoryStart
    /\ RechunkStart
    /\ IngestStart
    /\ stored \in RankedStores
    /\ topK = MaxTopK
    /\ queryText = <<>>
    /\ filterCategory = Null
    /\ retrPc = "idle"
    /\ scanned = {}
    /\ results = <<>>
    /\ argv \in Argvs
    /\ genPc = "start"
    /\ warnings = 0
    /\ modelCalls = <<>>
    /\ generated = NotGenerated
    /\ chunkLog = <<>>
    /\ ClientStart
    /\ EvalStart
    /\ parsedArgs = NotParsed

SpecGenerate == GenerateInit /\ [][GenerateNext]_vars

\* each database operation, with a client where it takes one, on every input size,
\* the connect, the type registration and every query free to fail
ClientInit ==
    /\ content = <<>>
    /\ config = [chunkSize |-> MaxOverlap + 1, chunkOverlap |-> 0]
    /\ ChunkStart
    /\ StoreStart
    /\ CategoryStart
    /\ RechunkStart
    /\ IngestStart
    /\ RetrieveStart
    /\ GenerateStart
    /\ chunkLog = <<>>
    /\ dbOp \in {"insertDocument", "insertDocumentChunks", "insertDocuments",
                 "getDocumentById", "searchByVector"}
    /\ clientGiven \in {given \in BOOLEAN :
                            given => dbOp \in {"insertDocument", "insertDocumentChunks"}}
    /\ opPc = "called"
    /\ \E rows \in 0..MaxBatch : pendingQueries = Queries(dbOp, rows)
    /\ acquired = 0
    /\ released = 0
    /\ EvalStart
    /\ parsedArgs = NotParsed

SpecClient == ClientInit /\ [][ClientNext]_vars

\* runEval on every store content, the Bedrock calls and the query free to
\* fail, every judge answer
EvalInit ==
    /\ content = <<>>
    /\ config = [chunkSize |-> MaxOverlap + 1, chunkOverlap |-> 0]
    /\ ChunkStart
    /\ StoreStart
    /\ CategoryStart
    /\ RechunkStart
    /\ IngestStart
    /\ stored \in {s \in RankedStores : \A id \in DOMAIN s : s[id].category = "general"}
    /\ topK = MaxTopK
    /\ queryText = <<"q">>
    /\ filterCategory = Null
    /\ retrPc = "start"
    /\ scanned = {}
    /\ results = <<>>
    /\ GenerateStart
    /\ chunkLog = <<>>
    /\ ClientStart
    /\ evalPc = "start"
    /\ evaluations = <<>>
    /\ evalWarnings = 0
    /\ evalResult = NotEvaluated
    /\ parsedArgs = NotParsed

SpecEval == EvalInit /\ [][EvalNext]_vars

\* parseArgs on every command line
ArgsInit ==
    /\ content = <<>>
    /\ config = [chunkSize |-> MaxOverlap + 1, chunkOverlap |-> 0]
    /\ ChunkStart
    /\ StoreStart
    /\ CategoryStart
    /\ RechunkStart
    /\ IngestStart
    /\ RetrieveStart
    /\ argv \in CliArgvs
    /\ genPc = "idle"
    /\ warnings = 0
    /\ modelCalls = <<>>
    /\ generated = NotGenerated
    /\ chunkLog = <<>>
    /\ ClientStart
    /\ EvalStart
    /\ parsedArgs = NotParsed

SpecArgs == ArgsInit /\ [][main_parseArgs]_vars

-----------------------------------------------------------------------------
(* Properties of chunkDocument *)

Occurs(text, t) == indexOf(text, t, 0) # -1

Positions(text, t) == {i \in 0..(Len(text) - Len(t)) : SubSeq(text, i + 1, i + Len(t)) = t}

Emissions(splits, t) == {k \in 1..Len(splits) : splits[k] = t}

\* C1: every chunk chunkDocument emits has 0 <= startOffset <= endOffset <=
\* content.length, also when its fragment is not found in the content and the
\* fallback offset is used.
C1_OffsetsWithinContent ==
    \A k \in 1..Len(chunks) :
        /\ 0 <= chunks[k].startOffset
        /\ chunks[k].startOffset <= chunks[k].endOffset
        /\ chunks[k].endOffset <= Len(content)

\* a chunk whose fragment occurs nowhere in the content was emitted with the
\* fallback offset, and its raw span had to be clamped
C1_Witness ==
    /\ chunkPc = "done"
    /\ \E k \in 1..Len(chunks) :
        /\ ~Occurs(content, keptSplits[k])
        /\ chunks[k].startOffset = Len(content)
        /\ Len(keptSplits[k]) > Len(chunks[k].content)

\* C2 as stated: for every chunk, content.slice(startOffset, endOffset) trimmed
\* equals the stored chunk content (stated for the valid configurations).
C2_SliceEqualsContent ==
    (0 <= config.chunkOverlap /\ config.chunkOverlap < config.chunkSize) =>
        \A k \in 1..Len(chunks) :
            trim(slice(content, chunks[k].startOffset, chunks[k].endOffset))
                = chunks[k].content

\* C2 amended: for every chunk whose fragment occurs in the document content,
\* content.slice(startOffset, endOffset) trimmed equals the stored chunk content.
C2_SliceEqualsContentWhenFound ==
    \A k \in 1..Len(chunks) :
        Occurs(content, keptSplits[k]) =>
            trim(slice(content, chunks[k].startOffset, chunks[k].endOffset)) = chunks[k].content

\* a fragment with surrounding whitespace was found after an earlier chunk and
\* its offsets were shrunk by the trimmed characters
C2_Witness ==
    /\ chunkPc = "done"
    /\ Len(chunks) = 2
    /\ Occurs(content, keptSplits[2])
    /\ Len(keptSplits[2]) > Len(chunks[2].content)
    /\ chunks[2].startOffset > 0
    /\ chunks[2].endOffset > chunks[2].startOffset

\* C3: chunk start offsets are non-decreasing in chunkIndex order (stated for
\* the valid configurations, 0 <= chunkOverlap < chunkSize, and for fragments
\* that all occur in the content).
C3_StartOffsetsMonotonic ==
    (/\ 0 <= config.chunkOverlap
     /\ config.chunkOverlap < config.chunkSize
     /\ \A k \in 1..Len(keptSplits) : Occurs(content, keptSplits[k])) =>
        \A k \in 1..(Len(chunks) - 1) :
            chunks[k + 1].startOffset >= chunks[k].startOffset

\* C4: when the same fragment text occurs more than once in the document and is
\* emitted as separate fragments (no more often than it occurs), a later
\* fragment is placed at a later occurrence than an earlier one, for every
\* chunkOverlap < chunkSize.
C4_RepeatedFragmentPlacedLater ==
    (chunkPc = "done" /\ 0 <= config.chunkOverlap /\ config.chunkOverlap < config.chunkSize) =>
        \A i, j \in 1..Len(chunks) :
            (/\ i < j
             /\ keptSplits[i] = keptSplits[j]
             /\ Cardinality(Positions(content, keptSplits[i])) > 1
             /\ Cardinality(Emissions(keptSplits, keptSplits[i]))
                    <= Cardinality(Positions(content, keptSplits[i])))
            => chunks[j].startOffset > chunks[i].startOffset

\* C5: the chunkIndex values are exactly 0..n-1 in order, however many
\* fragments were discarded as empty or whitespace-only.
C5_ChunkIndexContiguous ==
    \A k \in 1..Len(chunks) : chunks[k].chunkIndex = k - 1

\* a chunk was emitted for a fragment that follows a discarded blank fragment
C5_Witness ==
    /\ chunkPc = "done"
    /\ Len(chunks) > 0
    /\ Len(rawSplits) > Len(chunks)
    /\ Len(trim(rawSplits[1])) = 0
    /\ Len(trim(rawSplits[Len(rawSplits)])) > 0

\* C6: when chunkOverlap >= chunkSize chunking fails with a configuration error
\* before any chunking attempt: the splitter and the resolver are never invoked
\* and no chunk is produced.
C6_OverlapNotBelowSizeRejected ==
    config.chunkOverlap >= config.chunkSize =>
        /\ splitterCalls = 0
        /\ resolverCalls = 0
        /\ chunks = <<>>

\* C10: a document whose content is empty or whitespace-only yields zero
\* chunks as a normal result, without the splitter or the offset resolver
\* being invoked.
C10_BlankDocumentYieldsNothing ==
    (\A p \in 1..Len(content) : IsWhitespace(content[p])) =>
        /\ chunks = <<>>
        /\ splitterCalls = 0
        /\ resolverCalls = 0
        /\ chunkPc \in {"start", "done"}

\* chunkDocument has returned for a whitespace-only document
C10_Witness ==
    /\ chunkPc = "done"
    /\ Len(content) > 0
    /\ \A p \in 1..Len(content) : IsWhitespace(content[p])

-----------------------------------------------------------------------------
(* Properties of insertDocuments *)

Settled == dbPc \in {"returned", "closed"}

ChunkIndexesOf(id) == {c.chunkIndex : c \in {r \in document_chunk : r.documentId = id}}

\* C7: readers see a document either not at all or with all of its chunk rows,
\* and a failed chunk insert leaves neither the document row nor any of its
\* chunk rows committed.
C7_DocumentWithAllChunksOrAbsent ==
    /\ \A d \in document : ChunkIndexesOf(d.id) = 0..(docs[d.input] - 1)
    /\ \A c \in document_chunk : \E d \in document : d.id = c.documentId
    /\ error.step = "chunk" =>
          /\ \A d \in document : d.input # error.doc
          /\ ChunkIndexesOf(ids[error.doc]) = {}

\* the second chunk insert of a document failed after its row and first chunk
\* were written, and insertDocuments has settled
C7_Witness ==
    /\ Settled
    /\ error.step = "chunk"
    /\ chunkIdx > 1
    /\ Len(ids) = error.doc

\* C8 as stated: when persisting document N fails, documents 1..N-1 of the run
\* remain committed.
C8_EarlierDocumentsStayCommitted ==
    (Settled /\ error.step \in {"document", "chunk"}) =>
        \A k \in 1..(error.doc - 1) : \E d \in document : d.input = k

\* C8 amended: one transaction spans the batch, so when an insert of document N
\* or of one of its chunks fails no row of the run is committed: documents
\* 1..N-1 are rolled back together with N.
C8_FailureCommitsNoDocument ==
    error.step \in {"document", "chunk"} =>
        /\ document = {}
        /\ document_chunk = {}

\* an insert for the second document failed after the first document and all
\* of its chunks were written, and insertDocuments has settled
C8_Witness ==
    /\ Settled
    /\ error.step \in {"document", "chunk"}
    /\ error.doc > 1
    /\ docs[1] > 0
    /\ document = {}

\* C9: a failing insert or COMMIT makes the catch block send ROLLBACK, and
\* insertDocuments rejects: it never returns ids after a failure, and where the
\* caught error is rethrown no transaction is left open.
C9_FailureRollsBackAndPropagates ==
    Settled =>
        /\ error.step # "none" => rollbacks = 1 /\ result \in {"error", "rollbackError"}
        /\ result = "ids" => error.step = "none" /\ rollbacks = 0
        /\ result = "error" => txState = "none" /\ txDocument = {} /\ txChunk = {}

\* COMMIT was rejected after every row was written, and the error reached the
\* caller
C9_Witness ==
    /\ dbPc = "returned"
    /\ error.step = "COMMIT"
    /\ result = "error"
    /\ Len(ids) = Len(docs)

-----------------------------------------------------------------------------
(* Properties of the offset resolver, continued *)

\* C17: with a valid configuration and every kept fragment present in the
\* content, the start offset of each chunk after the first is at least the
\* start offset of the chunk before it minus chunkOverlap.
C17_StartNeverRegressesPastOverlap ==
    (/\ chunkPc = "done"
     /\ 0 <= config.chunkOverlap
     /\ config.chunkOverlap < config.chunkSize
     /\ \A k \in 1..Len(keptSplits) : Occurs(content, keptSplits[k]))
        => \A i \in 1..(Len(chunks) - 1) :
              chunks[i + 1].startOffset >= chunks[i].startOffset - config.chunkOverlap

-----------------------------------------------------------------------------
(* Properties of loadMarkdownFile *)

\* C20: the category of a loaded document is the first directory entry on the
\* way from the docs directory to the file, and "general" for a file directly
\* in the docs directory; directories below the first do not matter.
C20_CategoryIsTopLevelDirectory ==
    loaded # NotLoaded =>
        loaded.category = (IF Len(scanPath) = 1 THEN General ELSE scanPath[1])

C20_Witness ==
    /\ loaded # NotLoaded
    /\ Len(scanPath) = MaxDepth
    /\ scanPath[1] # scanPath[MaxDepth - 1]
    /\ loaded.category = scanPath[1]

-----------------------------------------------------------------------------
(* Properties of chunkDocuments *)

-----------------------------------------------------------------------------
(* Properties of ingest and embedChunks *)

\* the file a document row was written for
FileOfRow(row) == docsToInsert[row.input].filePath

CallsFor(filePath) == {i \in 1..Len(requests) : ingestChunks[requests[i]].filePath = filePath}

\* C11: a document that yields no chunk gets no embedding call and no document
\* row, pending or committed; when the run completes, every document that
\* yields chunks has had one embedding call per chunk and has its document row
\* and all its chunk rows committed; when no document yields a chunk, no
\* embedding call is made and insertDocuments is never entered.
C11_ZeroChunkDocumentSkipped ==
    /\ \A k \in 1..Len(ingestDocs) :
          ingestDocs[k] = 0 =>
              /\ CallsFor(k) = {}
              /\ \A row \in document \cup txDocument : FileOfRow(row) # k
    /\ ingestPc = "done" =>
          \A k \in 1..Len(ingestDocs) :
              ingestDocs[k] > 0 =>
                  /\ Cardinality(CallsFor(k)) = ingestDocs[k]
                  /\ \E row \in document :
                        /\ FileOfRow(row) = k
                        /\ ChunkIndexesOf(row.id) = 0..(ingestDocs[k] - 1)
    /\ Len(chunkDocuments(ingestDocs)) = 0 =>
          /\ ingestPc \in {"start", "skipped"}
          /\ requests = <<>>
          /\ dbPc = "idle"
          /\ ~clientHeld
          /\ document = {} /\ txDocument = {}

C11_Witness ==
    /\ ingestPc = "done"
    /\ \E k \in 1..Len(ingestDocs) : ingestDocs[k] = 0
    /\ \E k \in 1..Len(ingestDocs) : ingestDocs[k] = MaxChunksPerDoc
    /\ Cardinality(document) = 1
    /\ Cardinality(document_chunk) = MaxChunksPerDoc

\* C18: at most one generateEmbedding call is outstanding at any time, the
\* calls are made in chunk order, and embeddedChunks holds, position by
\* position, each input chunk with the vector computed for it: one per input
\* chunk once embedChunks has resolved.
C18_EmbeddingCallsSerialized ==
    /\ Cardinality(inFlight) <= 1
    /\ \A i \in 1..Len(requests) : requests[i] = i
    /\ \A i \in 1..Len(embeddedChunks) : embeddedChunks[i] = EmbeddedChunk(ingestChunks[i])
    /\ ingestPc \in {"embedded", "inserting", "done"} =>
          Len(embeddedChunks) = Len(ingestChunks)

C18_Witness ==
    /\ ingestPc = "embedded"
    /\ Len(embeddedChunks) = MaxChunksPerDoc + 1
    /\ Len(requests) = MaxChunksPerDoc + 1
    /\ inFlight = {}

\* some generateEmbedding call has rejected
EmbeddingFailed == Len(requests) > Len(embeddedChunks) + Cardinality(inFlight)

\* C24: insertDocuments is entered only after every chunk of every document has
\* been embedded; once an embedding call has failed, ingest has rejected, no
\* document list is built and no document or chunk row is written, pending or
\* committed.
C24_NothingStoredUnlessAllEmbedded ==
    /\ dbPc # "idle" =>
          /\ Len(embeddedChunks) = Len(ingestChunks)
          /\ Len(requests) = Len(ingestChunks)
          /\ inFlight = {}
    /\ EmbeddingFailed =>
          /\ ingestPc = "failed"
          /\ dbPc = "idle"
          /\ docsToInsert = <<>>
          /\ document = {} /\ txDocument = {}
          /\ document_chunk = {} /\ txChunk = {}

C24_Witness ==
    /\ EmbeddingFailed
    /\ ingestPc = "failed"
    /\ Len(ingestDocs) = MaxDocs
    /\ ingestDocs[1] >= 1
    /\ Len(embeddedChunks) = ingestDocs[1]
    /\ document = {}

\* where an embedded chunk was submitted: document and position among its chunks
SubmittedAt(chunk) ==
    {p \in (1..Len(docsToInsert)) \X (1..MaxChunksPerDoc) :
        /\ p[2] <= Len(docsToInsert[p[1]].chunks)
        /\ docsToInsert[p[1]].chunks[p[2]] = chunk}

RECURSIVE TotalChunks(_)
\* docsToInsert.reduce((sum, doc) => sum + doc.chunks.length, 0)
TotalChunks(inputs) ==
    IF inputs = <<>> THEN 0
    ELSE TotalChunks(SubSeq(inputs, 1, Len(inputs) - 1)) + Len(inputs[Len(inputs)].chunks)

\* C26: once buildDocumentInputs has run, every embedded chunk is submitted
\* exactly once, under the document of its filePath; the chunks of a document
\* are in chunkIndex order and the documents in scan order; the chunk rows
\* submitted are as many as the embedded chunks, and no document is submitted
\* with an empty chunk list.
C26_EveryEmbeddedChunkSubmittedOnce ==
    dbPc # "idle" =>
        /\ \A c \in 1..Len(embeddedChunks) :
              /\ Cardinality(SubmittedAt(embeddedChunks[c])) = 1
              /\ \A p \in SubmittedAt(embeddedChunks[c]) :
                    docsToInsert[p[1]].filePath = embeddedChunks[c].filePath
        /\ \A d \in 1..Len(docsToInsert) :
              /\ Len(docsToInsert[d].chunks) > 0
              /\ \A i, j \in 1..Len(docsToInsert[d].chunks) :
                    i < j => docsToInsert[d].chunks[i].chunkIndex
                                < docsToInsert[d].chunks[j].chunkIndex
        /\ \A d, e \in 1..Len(docsToInsert) :
              d < e => docsToInsert[d].filePath < docsToInsert[e].filePath
        /\ TotalChunks(docsToInsert) = Len(embeddedChunks)

C26_Witness ==
    /\ ingestPc = "inserting"
    /\ Len(docsToInsert) = MaxDocs
    /\ Len(embeddedChunks) = MaxDocs * MaxChunksPerDoc
    /\ TotalChunks(docsToInsert) = MaxDocs * MaxChunksPerDoc

-----------------------------------------------------------------------------
(* Properties of retrieve *)

ResultIds == {results[i].id : i \in 1..Len(results)}

\* the stored chunks among candidates that pass the filter, are not returned
\* and are more similar to the query than some returned chunk
LeftOutAbove(candidates) ==
    {id \in candidates \ ResultIds :
        /\ PassesFilter(stored[id], filterCategory)
        /\ \E i \in 1..Len(results) :
              Similarity(stored[id].distance) > results[i].similarity}

\* C14: a retrieval given a category returns only chunks whose document has
\* that category; a retrieval given none excludes no compared chunk for its
\* category: a compared chunk is left out only when topK chunks at least as
\* similar are returned.
C14_CategoryFilter ==
    retrPc = "resolved" =>
        /\ filterCategory # Null =>
              \A i \in 1..Len(results) :
                  /\ results[i].category = filterCategory
                  /\ stored[results[i].id].category = filterCategory
        /\ filterCategory = Null =>
              \A id \in scanned \ ResultIds :
                  /\ Len(results) = topK
                  /\ \A i \in 1..Len(results) :
                        results[i].similarity >= Similarity(stored[id].distance)

C14_Witness ==
    /\ retrPc = "resolved"
    /\ filterCategory = "shipping"
    /\ Len(results) = topK
    /\ \E id \in scanned :
          /\ stored[id].category = "general"
          /\ Similarity(stored[id].distance) > results[1].similarity

\* C15 as stated: at most topK results in descending similarity, and no stored
\* chunk that passes the filter and is left out is more similar than a
\* returned one.
C15_TopKOfAllStored ==
    retrPc = "resolved" =>
        /\ Len(results) <= topK
        /\ \A i, j \in 1..Len(results) : i < j => results[i].similarity >= results[j].similarity
        /\ LeftOutAbove(DOMAIN stored) = {}

\* C15, amended: at most topK results in descending similarity, each with
\* similarity 1 - distance, and no chunk the executed plan compared that passes
\* the filter and is left out is more similar than a returned one.
C15_TopKOfCompared ==
    retrPc = "resolved" =>
        /\ Len(results) <= topK
        /\ \A i, j \in 1..Len(results) : i < j => results[i].similarity >= results[j].similarity
        /\ \A i \in 1..Len(results) :
              results[i].similarity + stored[results[i].id].distance = 1
        /\ LeftOutAbove(scanned) = {}

C15_Witness ==
    /\ retrPc = "resolved"
    /\ topK = MaxTopK
    /\ Len(results) = topK
    /\ results[1].similarity > results[topK].similarity
    /\ \E id \in scanned \ ResultIds : PassesFilter(stored[id], filterCategory)

-----------------------------------------------------------------------------
(* Properties of generate *)

\* the command-line arguments after the script path
RelevantArgs == slice(argv, 2, Len(argv))

Words(text) == {text[i] : i \in 1..Len(text)}

\* C12: once generate has dealt with a rejected retrieve, it has logged one
\* warning and called the generative model exactly once, with an empty
\* context; it never rejects without that call, and a result it resolves to
\* has an empty context and contextCount 0.
C12_RetrievalFailureStillGenerates ==
    (retrPc = "rejected" /\ genPc \in {"generating", "done", "failed"}) =>
        /\ warnings = 1
        /\ Len(modelCalls) = 1
        /\ modelCalls[1].context = <<>>
        /\ modelCalls[1].query = queryText
        /\ genPc = "done" => (generated.context = <<>> /\ generated.contextCount = 0)

C12_Witness ==
    /\ retrPc = "rejected"
    /\ genPc = "done"
    /\ warnings = 1
    /\ Len(modelCalls) = 1
    /\ generated.contextCount = 0

\* C13: when the command line gives, after the query, --category and a
\* category, every chunk in the context handed to the generative model has
\* that category, and the query handed to retrieval and to the model does not
\* hold the option.
C13_GenerateFiltersByCategory ==
    \A i \in 2..(Len(RelevantArgs) - 1) :
        (RelevantArgs[i] = <<"--category">> /\ Head(RelevantArgs[i + 1]) \in Categories)
            => /\ genPc \in {"retrieving", "generating", "done", "failed"} =>
                     "--category" \notin Words(queryText)
               /\ \A c \in 1..Len(modelCalls) :
                     /\ "--category" \notin Words(modelCalls[c].query)
                     /\ \A j \in 1..Len(modelCalls[c].context) :
                           modelCalls[c].context[j].category = Head(RelevantArgs[i + 1])

-----------------------------------------------------------------------------
(* Properties of findChunkOffsets and of the trim adjustment *)

\* searchStart when fragment k is resolved: previousEnd is 0 at first and then
\* the end returned for the fragment before
SearchStartAt(k) ==
    LET previousEnd == IF k = 1 THEN 0 ELSE chunkOffsets[k - 1].endOffset
    IN  IF previousEnd - config.chunkOverlap > 0
        THEN previousEnd - config.chunkOverlap
        ELSE 0

IsFirstOf(p, positions) == p \in positions /\ \A q \in positions : p <= q

\* fragment k occurs in the content, but not at or after its searchStart: it
\* was placed by the search from position 0
RetriedFromZero(k) ==
    LET all == Positions(content, keptSplits[k])
        from == SearchStartAt(k)
    IN  /\ all # {}
        /\ from > 0
        /\ \A p \in all : p < from

\* fragment k was placed at searchStart without having been found
Placeholder(k) == Positions(content, keptSplits[k]) = {}

\* C21: findChunkOffsets returns one pair per fragment, in order; each start is
\* the first occurrence of the fragment at or after searchStart = max(0,
\* previousEnd - chunkOverlap), else, when searchStart > 0, its first
\* occurrence from 0, else searchStart; each end is min(start + fragment
\* length, content length); previousEnd is 0 at first and then the last end.
C21_ResolverAgreesWithSpecification ==
    (chunkPc = "done" /\ resolverCalls = 1) =>
        /\ Len(chunkOffsets) = Len(keptSplits)
        /\ \A k \in 1..Len(keptSplits) :
              LET all == Positions(content, keptSplits[k])
                  from == SearchStartAt(k)
                  after == {p \in all : p >= from}
                  start == chunkOffsets[k].startOffset
                  ending == start + Len(keptSplits[k])
              IN  /\ after # {} => IsFirstOf(start, after)
                  /\ (after = {} /\ from > 0 /\ all # {}) => IsFirstOf(start, all)
                  /\ all = {} => start = from
                  /\ chunkOffsets[k].endOffset =
                        (IF ending < Len(content) THEN ending ELSE Len(content))

C21_Witness ==
    /\ chunkPc = "done"
    /\ resolverCalls = 1
    /\ Len(chunkOffsets) = MaxFrags
    /\ config.chunkOverlap = MaxOverlap
    /\ RetriedFromZero(MaxFrags)
    /\ chunkOffsets[MaxFrags].startOffset < SearchStartAt(MaxFrags)

\* the leading and the trailing whitespace characters of a fragment, counted
LeadingWhitespace(s) ==
    CHOOSE n \in 0..Len(s) :
        /\ \A i \in 1..n : IsWhitespace(s[i])
        /\ n = Len(s) \/ ~IsWhitespace(s[n + 1])

TrailingWhitespace(s) ==
    CHOOSE n \in 0..Len(s) :
        /\ \A i \in (Len(s) - n + 1)..Len(s) : IsWhitespace(s[i])
        /\ n = Len(s) \/ ~IsWhitespace(s[Len(s) - n])

\* C22 as stated: with a valid configuration, each chunk starts at the raw
\* start plus the leading whitespace count and ends at the raw end minus the
\* trailing whitespace count, or at its start when that end would precede it.
C22_TrimShiftsOffsets ==
    (chunkPc = "done" /\ resolverCalls = 1
     /\ 0 <= config.chunkOverlap /\ config.chunkOverlap < config.chunkSize) =>
        \A k \in 1..Len(chunks) :
            LET start == chunkOffsets[k].startOffset + LeadingWhitespace(keptSplits[k])
                ending == chunkOffsets[k].endOffset - TrailingWhitespace(keptSplits[k])
            IN  /\ chunks[k].startOffset = start
                /\ chunks[k].endOffset = (IF ending < start THEN start ELSE ending)

\* C22, amended: the shifted start is capped at the content length; the end is
\* the raw end minus the trailing whitespace count, or the chunk's start when
\* that end would precede it.
C22_TrimShiftsOffsetsWithinContent ==
    (chunkPc = "done" /\ resolverCalls = 1) =>
        \A k \in 1..Len(chunks) :
            LET shifted == chunkOffsets[k].startOffset + LeadingWhitespace(keptSplits[k])
                start == IF shifted > Len(content) THEN Len(content) ELSE shifted
                ending == chunkOffsets[k].endOffset - TrailingWhitespace(keptSplits[k])
            IN  /\ chunks[k].startOffset = start
                /\ chunks[k].endOffset = (IF ending < start THEN start ELSE ending)

C22_Witness ==
    /\ chunkPc = "done"
    /\ resolverCalls = 1
    /\ \E k \in 1..Len(chunks) :
          /\ LeadingWhitespace(keptSplits[k]) > 0
          /\ chunks[k].startOffset > chunkOffsets[k].startOffset
          /\ chunks[k].endOffset > chunks[k].startOffset
    /\ \E k \in 1..Len(chunks) :
          /\ TrailingWhitespace(keptSplits[k]) > 0
          /\ chunkOffsets[k].endOffset - TrailingWhitespace(keptSplits[k]) < chunks[k].startOffset
          /\ chunks[k].endOffset = chunks[k].startOffset

-----------------------------------------------------------------------------
(* Properties of the console output of chunk.ts *)

\* C23: when the resolver degrades for a chunk (unanchored search from 0, or
\* the placeholder searchStart for a fragment that is not found), chunkDocument
\* still returns its chunks, and a log record has been produced for that chunk.
C23_DegradationIsLogged ==
    (/\ chunkPc = "done"
     /\ resolverCalls = 1
     /\ 0 <= config.chunkOverlap
     /\ config.chunkOverlap < config.chunkSize) =>
        /\ Len(chunks) = Len(keptSplits)
        /\ \A k \in 1..Len(chunks) :
              (RetriedFromZero(k) \/ Placeholder(k)) =>
                  \E r \in 1..Len(chunkLog) : chunkLog[r].chunkIndex = chunks[k].chunkIndex

-----------------------------------------------------------------------------
(* Properties of the pool clients *)

\* C25: when a database operation has returned or thrown, every pool client it
\* acquired has been released exactly once, also after a failed type
\* registration and after a failed ROLLBACK.
C25_EveryClientReleasedOnce ==
    opPc \in {"returned", "threw", "threwRollback"} => released = acquired

-----------------------------------------------------------------------------
(* Properties of runEval *)

\* C27: runEval holds, and returns, one evaluation per retrieved chunk in
\* retrieval order; a chunk whose judgement failed has relevance 1 and
\* sufficiency 1 and the chunks after it are still evaluated; every score is
\* in 1..5; with no chunk retrieved the averages are 0; runEval rejects exactly
\* when retrieve rejected.
C27_OneEvaluationPerRetrievedChunk ==
    /\ Len(evaluations) <= Len(results)
    /\ \A i \in 1..Len(evaluations) :
          /\ evaluations[i].id = results[i].id
          /\ evaluations[i].relevance \in 1..5
          /\ evaluations[i].sufficiency \in 1..5
    /\ Cardinality({i \in 1..Len(evaluations) :
                        evaluations[i] = FailedEvaluation(results[i])}) = evalWarnings
    /\ evalPc = "done" =>
          /\ retrPc = "resolved"
          /\ Len(evaluations) = Len(results)
          /\ evalResult = EvalResultOf(queryText, evaluations)
          /\ evalResult.avgRelevance.den * evalResult.avgSufficiency.den > 0
          /\ Len(results) = 0 =>
                evalResult.avgRelevance.num = 0 /\ evalResult.avgSufficiency.num = 0
    /\ evalPc = "failed" <=> (retrPc = "rejected" /\ evalPc # "retrieving")
    /\ evalPc = "failed" => evaluations = <<>> /\ evalResult = NotEvaluated

C27_Witness ==
    /\ evalPc = "done"
    /\ Len(results) = MaxTopK
    /\ evaluations[1] = FailedEvaluation(results[1])
    /\ evalWarnings = 1
    /\ evaluations[MaxTopK].relevance = 5
    /\ evaluations[MaxTopK].sufficiency = 4

-----------------------------------------------------------------------------
(* Properties of parseArgs *)

RECURSIVE IsValueAt(_)
\* position j is read as the value of the --category before it, which is not
\* itself read as a value
IsValueAt(j) == j >= 2 /\ RelevantArgs[j - 1] = CategoryFlag /\ ~IsValueAt(j - 1)

RECURSIVE TokensAt(_, _)
\* the arguments at the given positions up to n, in their order
TokensAt(positions, n) ==
    IF n = 0 THEN <<>>
    ELSE TokensAt(positions, n - 1) \o (IF n \in positions THEN <<RelevantArgs[n]>> ELSE <<>>)

\* the arguments left for the query when values holds the category values
QueryTokens(values) ==
    TokensAt({i \in 1..Len(RelevantArgs) : i \notin values /\ ~startsWith(RelevantArgs[i], <<"-", "-">>)},
             Len(RelevantArgs))

\* the value at the last of the given positions
LastValue(values) ==
    IF values = {} THEN Undefined
    ELSE RelevantArgs[CHOOSE j \in values : \A k \in values : k <= j]

\* C28 as stated: every --category followed by another token sets category to
\* that token, the last one winning, and neither is in the query; every other
\* token starting with -- is left out; the query is the remaining tokens joined
\* by single spaces, null when none remain.
C28_ParseArgsAsStated ==
    parsedArgs # NotParsed =>
        LET values == {j \in 2..Len(RelevantArgs) : RelevantArgs[j - 1] = CategoryFlag}
        IN  /\ parsedArgs.category = LastValue(values)
            /\ parsedArgs.query =
                  IF QueryTokens(values) = <<>> THEN NullQuery
                  ELSE join(QueryTokens(values), " ")

\* C28, amended: the arguments are read from left to right; a --category that
\* was not itself read as a value and is followed by another token sets
\* category to that token, the last one winning, and neither is in the query;
\* every other token starting with -- is left out; the query is the remaining
\* tokens joined by single spaces and trimmed of surrounding whitespace, null
\* when none remain.
C28_ParseArgsLeftToRight ==
    parsedArgs # NotParsed =>
        LET values == {j \in 1..Len(RelevantArgs) : IsValueAt(j)}
        IN  /\ parsedArgs.category = LastValue(values)
            /\ parsedArgs.query =
                  IF QueryTokens(values) = <<>> THEN NullQuery
                  ELSE trim(join(QueryTokens(values), " "))

C28_Witness ==
    /\ parsedArgs # NotParsed
    /\ RelevantArgs = <<CategoryFlag, CategoryFlag, <<"q">>>>
    /\ parsedArgs.category = CategoryFlag
    /\ parsedArgs.query = <<"q">>

====
